---- MODULE Spec2Model ----
(***************************************************************************)
(* A model of src/jira.py: the class Jira, a wrapper over the Jira client  *)
(* that selects one of two servers (Source.A, Source.B), keeps the object  *)
(* it builds in the class attribute _instance, and maps ticket drafts,     *)
(* sprints and search responses.                                           *)
(*                                                                         *)
(* Python values whose type varies at one place (a JSON field that may be  *)
(* null, a string or an object; the value bound to `issue`) are records    *)
(* tagged with their Python type in the field pytype.                      *)
(*                                                                         *)
(* Threads of one process share the class attribute _instance and the      *)
(* objects it has held.  A step of a thread is one read or one write of a  *)
(* shared attribute (Jira._instance, self.source, self.request,            *)
(* self.auth_jira) together with the computation on the thread's own       *)
(* values that follows it; between two steps of a thread the other thread  *)
(* may run.  create_ticket waits for the backend in a step of its own.     *)
(* The other operations read self.auth_jira once, before their one call on *)
(* the session; they are one step each and are checked from states in      *)
(* which no construction runs (SpecRead, SpecSearch).                       *)
(***************************************************************************)
EXTENDS Integers, Sequences, FiniteSets, Bags, TLC

VARIABLES
    instance,   \* Jira._instance: 0 for None, or the object it holds (line 30)
    objects,    \* the objects super().__new__ made (line 58), each with its
                \* attributes source, request, auth_jira (lines 48-50)
    threads,    \* per thread: the call it runs, its position and its locals
    handles,    \* the facades callers obtained, in the order of construction
    started,    \* how many times Jira(...) was called
    wire,       \* the calls on the session made by the call that just ended
    last        \* the call that ended in the last step, and how it ended

vars == <<instance, objects, threads, handles, started, wire, last>>

(***************************************************************************)
(* Bounds of the model.                                                    *)
(***************************************************************************)
\* how many times callers call Jira(...)
MaxConstructions == 2
\* how many boards the backend lists for a project
MaxBoards == 2
\* how many sprints the backend lists for a board
MaxSprints == 2
\* how many issues a search page holds
MaxIssues == 2

(***************************************************************************)
(* Python values.                                                          *)
(***************************************************************************)
PyNone == [pytype |-> "NoneType"]
PyStr(s) == [pytype |-> "str", v |-> s]
\* a dict: its mapping, and its keys in insertion order
PyDict(ks, d) == [pytype |-> "dict", keys |-> ks, v |-> d]
\* the Issue resource the client returns from create_issue
PyIssue(k) == [pytype |-> "Issue", key |-> k]

PyList(l) == [pytype |-> "list", v |-> l]
PyInt(n) == [pytype |-> "int", v |-> n]
PyBool(b) == [pytype |-> "bool", v |-> b]

\* the truth value Python gives a value in `if x` and `x if c else y`
Truthy(x) ==
    IF x.pytype = "NoneType" THEN FALSE
    ELSE IF x.pytype = "bool" THEN x.v
    ELSE IF x.pytype = "int" THEN x.v # 0
    ELSE IF x.pytype = "str" THEN x.v # ""
    ELSE IF x.pytype = "dict" THEN DOMAIN x.v # {}
    ELSE IF x.pytype = "list" THEN x.v # <<>>
    ELSE TRUE

\* repr(x), for None, bool, int, str (of characters repr does not escape
\* and without quotes), list and dict with str keys
RECURSIVE Repr(_), ReprItems(_), ReprPairs(_, _)
ReprItems(l) ==
    IF l = <<>> THEN ""
    ELSE Repr(Head(l)) \o (IF Len(l) = 1 THEN "" ELSE ", " \o ReprItems(Tail(l)))
ReprPairs(ks, d) ==
    IF ks = <<>> THEN ""
    ELSE "'" \o Head(ks) \o "': " \o Repr(d[Head(ks)])
         \o (IF Len(ks) = 1 THEN "" ELSE ", " \o ReprPairs(Tail(ks), d))
Repr(x) ==
    IF x.pytype = "NoneType" THEN "None"
    ELSE IF x.pytype = "bool" THEN (IF x.v THEN "True" ELSE "False")
    ELSE IF x.pytype = "int" THEN ToString(x.v)
    ELSE IF x.pytype = "str" THEN "'" \o x.v \o "'"
    ELSE IF x.pytype = "list" THEN "[" \o ReprItems(x.v) \o "]"
    ELSE "{" \o ReprPairs(x.keys, x.v) \o "}"

\* str(x), as "{}".format(x) renders a value: a str as it is, the other
\* values by their repr
Str(x) == IF x.pytype = "str" THEN x.v ELSE Repr(x)

\* d.get(k), d.get(k, None) on the mapping d
DictGet(d, k) == IF k \in DOMAIN d THEN d[k] ELSE PyNone

\* the mapping d without the key k
Without(d, k) == [x \in DOMAIN d \ {k} |-> d[x]]

\* an attribute that was never assigned
Unset == "<unset>"

Returned(v) == [outcome |-> "return", exc |-> "none", value |-> v]
Raised(e) == [outcome |-> "raise", exc |-> e, value |-> PyNone]

(***************************************************************************)
(* class Source(Enum), and the values a caller may pass as `source`.       *)
(***************************************************************************)
SourceA == "a"
SourceB == "b"
Source == {SourceA, SourceB}
\* a value that is no member of Source
SourceOther == "c"
Selectors == Source \cup {SourceOther}

\* request.user.username of the requests callers construct a Jira with
Users == {"alice", "bob"}

\* settings.A["url"], settings.B["url"]
ServerUrl(s) == IF s = SourceA THEN "settings.A.url" ELSE "settings.B.url"

NoSession == [id |-> 0, server |-> Unset, contextUser |-> Unset]

\* Jira.__connect_to_a: JIRA(...) on settings.A with the username of
\* self.request as contextUser header; ok tells whether the client's
\* handshake with the backend succeeds or JIRA(...) raises
connect_to_a(id, req, ok) ==
    IF ok THEN Returned([id |-> id, server |-> ServerUrl(SourceA), contextUser |-> req])
    ELSE Raised("JIRAError")

\* Jira.__connect_to_b
connect_to_b(id, req, ok) ==
    IF ok THEN Returned([id |-> id, server |-> ServerUrl(SourceB), contextUser |-> req])
    ELSE Raised("JIRAError")

\* Jira.__define_connection_source: the branch the test of line 68 takes
\* for the value src1 it reads from self.source, and the branch the test
\* of line 70 takes for the value src2 it reads there
define_connection_source(src1, src2) ==
    IF src1 = SourceA THEN Returned(SourceA)
    ELSE IF src2 = SourceB THEN Returned(SourceB)
    ELSE Raised("ValueError")

\* one request on a session: what went out, and what the backend answered
Call(sess, method, payload, reply) ==
    [server |-> sess.server, contextUser |-> sess.contextUser,
     method |-> method, payload |-> payload, reply |-> reply]

\* no call ended in the last step
NoOp ==
    [op |-> "none", handle |-> 0, args |-> <<>>,
     outcome |-> "return", exc |-> "none", value |-> PyNone,
     source |-> Unset, request |-> Unset]

\* the call op through the facade h ended as res
Outcome(op, h, args, res) ==
    [op |-> op, handle |-> h, args |-> args,
     outcome |-> res.outcome, exc |-> res.exc, value |-> res.value,
     source |-> Unset, request |-> Unset]

\* a create_ticket call, with the value of self.source that chose its
\* branch (none when it raised ValueError) and the value it read from
\* self.request
OutcomeOf(op, h, args, res, src, req) ==
    [Outcome(op, h, args, res) EXCEPT !.source = src, !.request = req]

\* the threads of the process
Threads == {"t1", "t2"}

\* a thread outside any call of the class
Idle == [call |-> "idle", pc |-> "idle"]

\* object.__new__(cls): an object without attributes
Blank == [source |-> Unset, request |-> Unset, auth_jira |-> NoSession]

At(t, call, pc) == threads[t].call = call /\ threads[t].pc = pc

\* a call starts on an idle thread: on t1, or on t2 while t1 is in a call
\* (which of two idle threads takes a call makes no difference)
Free(t) == threads[t] = Idle /\ (t = "t2" => threads["t1"] # Idle)

\* a step after which the call of its thread goes on
Goes == wire' = <<>> /\ last' = NoOp

(***************************************************************************)
(* The state before any construction: Jira._instance is None.              *)
(***************************************************************************)
Init ==
    /\ instance = 0
    /\ objects = <<>>
    /\ threads = [t \in Threads |-> Idle]
    /\ handles = <<>>
    /\ started = 0
    /\ wire = <<>>
    /\ last = NoOp

(***************************************************************************)
(* Jira(request, source) on the thread t.  type.__call__ runs __new__ and  *)
(* then __init__ on the object __new__ returned.                           *)
(***************************************************************************)
\* the call, and `if not cls._instance` (line 57)
New(t, user, sel) ==
    /\ Free(t)
    /\ started < MaxConstructions
    /\ started' = started + 1
    /\ threads' = [threads EXCEPT ![t] =
           [call |-> "construct",
            pc |-> IF instance = 0 THEN "create" ELSE "return",
            request |-> user, source |-> sel,
            self |-> 0, branch |-> Unset, username |-> Unset]]
    /\ wire' = <<>>
    /\ last' = NoOp
    /\ UNCHANGED <<instance, objects, handles>>

\* `cls._instance = super().__new__(cls)` (line 58)
NewCreate(t) ==
    /\ At(t, "construct", "create")
    /\ objects' = Append(objects, Blank)
    /\ instance' = Len(objects) + 1
    /\ threads' = [threads EXCEPT ![t].pc = "return"]
    /\ Goes
    /\ UNCHANGED <<handles, started>>

\* `return cls._instance` (line 59): the object __init__ will run on
NewReturn(t) ==
    /\ At(t, "construct", "return")
    /\ threads' = [threads EXCEPT ![t].self = instance, ![t].pc = "source"]
    /\ Goes
    /\ UNCHANGED <<instance, objects, handles, started>>

\* `self.source = source` (line 48)
InitSource(t) ==
    /\ At(t, "construct", "source")
    /\ objects' = [objects EXCEPT ![threads[t].self].source = threads[t].source]
    /\ threads' = [threads EXCEPT ![t].pc = "request"]
    /\ Goes
    /\ UNCHANGED <<instance, handles, started>>

\* `self.request = request` (line 49)
InitRequest(t) ==
    /\ At(t, "construct", "request")
    /\ objects' = [objects EXCEPT ![threads[t].self].request = threads[t].request]
    /\ threads' = [threads EXCEPT ![t].pc = "test_a"]
    /\ Goes
    /\ UNCHANGED <<instance, handles, started>>

\* `if self.source == Source.A` (line 68)
DefineConnectionTestA(t) ==
    LET src == objects[threads[t].self].source
    IN  /\ At(t, "construct", "test_a")
        /\ threads' = [threads EXCEPT ![t] =
               IF src = SourceA
               THEN [@ EXCEPT !.branch = define_connection_source(src, src).value,
                              !.pc = "connect"]
               ELSE [@ EXCEPT !.pc = "test_b"]]
        /\ Goes
        /\ UNCHANGED <<instance, objects, handles, started>>

\* `elif self.source == Source.B` (line 70), `else: raise ValueError`
DefineConnectionTestB(t) ==
    LET src == objects[threads[t].self].source
        res == define_connection_source(SourceOther, src)
    IN  /\ At(t, "construct", "test_b")
        /\ IF res.outcome = "return"
           THEN /\ threads' = [threads EXCEPT ![t].branch = res.value,
                                              ![t].pc = "connect"]
                /\ Goes
           ELSE /\ threads' = [threads EXCEPT ![t] = Idle]
                /\ wire' = <<>>
                /\ last' = Outcome("construct", 0,
                                   <<threads[t].request, threads[t].source>>, res)
        /\ UNCHANGED <<instance, objects, handles, started>>

\* __connect_to_a, __connect_to_b up to the call of JIRA(...): the options
\* take the username of self.request (lines 87, 105), and the thread waits
\* for the client's handshake
Connect(t) ==
    /\ At(t, "construct", "connect")
    /\ threads' = [threads EXCEPT
           ![t].username = objects[threads[t].self].request,
           ![t].pc = "handshake"]
    /\ Goes
    /\ UNCHANGED <<instance, objects, handles, started>>

\* JIRA(...) returns the session, `self.auth_jira = ...` assigns it (line
\* 50) and the caller obtains the object; or JIRA(...) raises
Connected(t, ok) ==
    LET f == threads[t]
        id == Len(handles) + 1
        conn == IF f.branch = SourceA THEN connect_to_a(id, f.username, ok)
                ELSE connect_to_b(id, f.username, ok)
    IN  /\ At(t, "construct", "handshake")
        /\ threads' = [threads EXCEPT ![t] = Idle]
        /\ wire' = <<>>
        /\ IF conn.outcome = "return"
           THEN /\ objects' = [objects EXCEPT ![f.self].auth_jira = conn.value]
                /\ handles' = Append(handles,
                       [source |-> f.source, user |-> f.request,
                        object |-> f.self, session |-> id])
                /\ last' = Outcome("construct", id, <<f.request, f.source>>,
                                   Returned(PyNone))
           ELSE /\ UNCHANGED <<objects, handles>>
                /\ last' = Outcome("construct", 0, <<f.request, f.source>>, conn)
        /\ UNCHANGED <<instance, started>>

(***************************************************************************)
(* Ticket drafts (the dict `data` of create_ticket) and the backend's      *)
(* answers to a creation request.                                          *)
(***************************************************************************)
IssueTypeA == 10001
ProjectB == 10407
IssueTypeB == 16704
PriorityHigh == "2"
PriorityDefault == "4"

Draft0 ==
    [product_id |-> PyInt(7), name |-> PyStr("Login"),
     as_a |-> PyStr("user"), i_want |-> PyStr("a button"),
     so_that |-> PyStr("I save time"),
     product |-> PyDict(<<"name">>, [name |-> PyStr("Billing")]),
     is_high_priority |-> PyBool(TRUE)]

DraftKeys == DOMAIN Draft0

Drafts ==
    {Draft0,
     [Draft0 EXCEPT !.product_id = PyInt(8)],
     [Draft0 EXCEPT !.name = PyStr("Export")],
     [Draft0 EXCEPT !.as_a = PyStr("admin")],
     [Draft0 EXCEPT !.product = PyDict(<<"id">>, [id |-> PyInt(7)])],
     [Draft0 EXCEPT !.product = PyNone],
     [Draft0 EXCEPT !.is_high_priority = PyBool(FALSE)],
     [Draft0 EXCEPT !.is_high_priority = PyNone],
     [Draft0 EXCEPT !.is_high_priority = PyInt(1)],
     [Draft0 EXCEPT !.is_high_priority = PyList(<<>>)],
     [Draft0 EXCEPT !.as_a = PyDict(<<"k">>, [k |-> PyStr("v")])],
     [Draft0 EXCEPT !.as_a = PyList(<<PyInt(1), PyNone>>)],
     [product_id |-> PyInt(7), name |-> PyStr("Login")]}
    \cup {Without(Draft0, k) : k \in DraftKeys}

\* the backend creates the issue and answers with it, or rejects the request
Accepted(k) == [ok |-> TRUE, issue |-> PyIssue(k)]
Rejected == [ok |-> FALSE, issue |-> PyNone]
CreateReplies == {Accepted("PRJ-1"), Rejected}

\* the result of a helper that may have sent a request before it ended
Sent(res, calls) ==
    [outcome |-> res.outcome, exc |-> res.exc, value |-> res.value, calls |-> calls]

\* o.key
AttrKey(o) ==
    IF o.pytype = "Issue" THEN Returned(PyStr(o.key)) ELSE Raised("AttributeError")

\* the keyword arguments __create_ticket_in_a passes to create_issue
FieldsA(data) ==
    [project |-> [id |-> data["product_id"]],
     issuetype |-> [id |-> IssueTypeA],
     summary |-> data["name"]]

\* Jira.__create_ticket_in_a
create_ticket_in_a(sess, data, reply) ==
    IF "product_id" \notin DOMAIN data \/ "name" \notin DOMAIN data
    THEN Sent(Raised("KeyError"), <<>>)
    ELSE LET calls == <<Call(sess, "create_issue", FieldsA(data), reply)>>
         IN  IF reply.ok THEN Sent(AttrKey(reply.issue), calls)
             ELSE Sent(Raised("JIRAError"), calls)

\* "{} , {}, {}".format(a, b, c)
UserStory(a, b, c) == Str(a) \o " , " \o Str(b) \o ", " \o Str(c)

\* the keyword arguments __create_ticket_in_b passes to create_issue
FieldsB(req, data) ==
    [project |-> [id |-> ProjectB],
     issuetype |-> [id |-> IssueTypeB],
     summary |-> data["name"],
     reporter |-> [name |-> req],
     customfield_23249 |-> UserStory(data["as_a"], data["i_want"], data["so_that"]),
     customfield_23250 |-> DictGet(data["product"].v, "name"),
     priority |-> IF Truthy(data["is_high_priority"])
                  THEN [id |-> PriorityHigh] ELSE [id |-> PriorityDefault]]

\* Jira.__create_ticket_in_b
create_ticket_in_b(sess, req, data, reply) ==
    IF \E k \in {"name", "as_a", "i_want", "so_that", "product"} : k \notin DOMAIN data
    THEN Sent(Raised("KeyError"), <<>>)
    ELSE IF data["product"].pytype # "dict"
    THEN Sent(Raised("AttributeError"), <<>>)
    ELSE IF "is_high_priority" \notin DOMAIN data
    THEN Sent(Raised("KeyError"), <<>>)
    ELSE LET calls == <<Call(sess, "create_issue", FieldsB(req, data), reply)>>
         IN  IF reply.ok THEN Sent(AttrKey(reply.issue), calls)
             ELSE Sent(Raised("JIRAError"), calls)

\* Jira.create_ticket, lines 126-127: the helper's result is bound to
\* `issue`, and the method returns issue.key
create_ticket_return(inner) ==
    IF inner.outcome = "raise" THEN inner
    ELSE Sent(AttrKey(inner.value), inner.calls)

\* the callers' facades: handles[h] records the arguments of the h-th
\* successful construction, the object it ran on and the session it opened
Holds(h) == h \in 1..Len(handles)

\* the object the h-th facade is, with its current attributes
Facade(h) == objects[handles[h].object]

\* the call of a thread ends as res
Ends(t, res, src, req) ==
    /\ threads' = [threads EXCEPT ![t] = Idle]
    /\ wire' = res.calls
    /\ last' = OutcomeOf("create_ticket", threads[t].handle, <<threads[t].data>>,
                         res, src, req)

\* create_ticket(data) through the facade h on the thread t: the call, and
\* `if self.source == Source.A` (line 121).  One call of create_ticket runs
\* at a time: the method writes nothing that another call of it could read.
CreateTicket(t, h, data) ==
    /\ Free(t)
    /\ Holds(h)
    /\ \A u \in Threads : threads[u].call # "create_ticket"
    /\ threads' = [threads EXCEPT ![t] =
           [call |-> "create_ticket",
            pc |-> IF Facade(h).source = SourceA THEN "in_a" ELSE "test_b",
            handle |-> h, data |-> data,
            source |-> IF Facade(h).source = SourceA THEN SourceA ELSE Unset,
            auth_jira |-> NoSession, request |-> Unset]]
    /\ Goes
    /\ UNCHANGED <<instance, objects, handles, started>>

\* `elif self.source == Source.B` (line 123), `else: raise ValueError`
CreateTicketTestB(t) ==
    LET src == Facade(threads[t].handle).source
    IN  /\ At(t, "create_ticket", "test_b")
        /\ IF src = SourceB
           THEN /\ threads' = [threads EXCEPT ![t].source = src, ![t].pc = "in_b"]
                /\ Goes
           ELSE Ends(t, Sent(Raised("ValueError"), <<>>), Unset, Unset)
        /\ UNCHANGED <<instance, objects, handles, started>>

\* __create_ticket_in_a up to the call of create_issue: self.auth_jira is
\* read (line 139) and the arguments are built from data (lines 140-142); a
\* missing key raises, otherwise the request goes out and the thread waits
CreateTicketInA(t) ==
    LET f == threads[t]
        sess == Facade(f.handle).auth_jira
        built == create_ticket_in_a(sess, f.data, Rejected)
    IN  /\ At(t, "create_ticket", "in_a")
        /\ IF built.calls = <<>>
           THEN Ends(t, built, f.source, Unset)
           ELSE /\ threads' = [threads EXCEPT ![t].auth_jira = sess, ![t].pc = "wait"]
                /\ Goes
        /\ UNCHANGED <<instance, objects, handles, started>>

\* __create_ticket_in_b: self.auth_jira is read (line 156) and the
\* arguments up to summary=data["name"] are built (lines 157-159)
CreateTicketInB(t) ==
    LET f == threads[t]
    IN  /\ At(t, "create_ticket", "in_b")
        /\ IF "name" \notin DOMAIN f.data
           THEN Ends(t, Sent(Raised("KeyError"), <<>>), f.source, Unset)
           ELSE /\ threads' = [threads EXCEPT
                       ![t].auth_jira = Facade(f.handle).auth_jira,
                       ![t].pc = "reporter"]
                /\ Goes
        /\ UNCHANGED <<instance, objects, handles, started>>

\* __create_ticket_in_b: self.request is read (line 160) and the other
\* arguments are built (lines 161-165); a missing key or a product that is
\* no dict raises, otherwise the request goes out and the thread waits
CreateTicketInBSend(t) ==
    LET f == threads[t]
        req == Facade(f.handle).request
        built == create_ticket_in_b(f.auth_jira, req, f.data, Rejected)
    IN  /\ At(t, "create_ticket", "reporter")
        /\ IF built.calls = <<>>
           THEN Ends(t, built, f.source, req)
           ELSE /\ threads' = [threads EXCEPT ![t].request = req, ![t].pc = "wait"]
                /\ Goes
        /\ UNCHANGED <<instance, objects, handles, started>>

\* create_issue returns the issue or raises: the helper returns issue.key
\* (lines 144, 167) and create_ticket returns (lines 126-127).  No attribute
\* of the facade is read after the request went out.
CreateTicketEnd(t, reply) ==
    LET f == threads[t]
        inner == IF f.source = SourceA
                 THEN create_ticket_in_a(f.auth_jira, f.data, reply)
                 ELSE create_ticket_in_b(f.auth_jira, f.request, f.data, reply)
    IN  /\ At(t, "create_ticket", "wait")
        /\ Ends(t, create_ticket_return(inner), f.source, f.request)
        /\ UNCHANGED <<instance, objects, handles, started>>

(***************************************************************************)
(* The operations forwarded to the session as they are.                    *)
(***************************************************************************)
IssueKeys == {"PRJ-1"}
Comments == {"done"}
Transitions == {31}
SprintIds == {5}
Acks == {TRUE, FALSE}

\* a forwarded call: None when the backend accepts, its error otherwise
Forward(sess, method, payload, ok) ==
    Sent(IF ok THEN Returned(PyNone) ELSE Raised("JIRAError"),
         <<Call(sess, method, payload, ok)>>)

\* Jira.add_comment
AddComment(h, comment, issue_key, ok) ==
    /\ Holds(h)
    /\ LET res == Forward(Facade(h).auth_jira, "add_comment", <<issue_key, comment>>, ok)
       IN  /\ wire' = res.calls
           /\ last' = Outcome("add_comment", h, <<comment, issue_key>>, res)
    /\ UNCHANGED <<instance, objects, threads, handles, started>>

\* Jira.change_transition
ChangeTransition(h, transition, issue_key, ok) ==
    /\ Holds(h)
    /\ LET res == Forward(Facade(h).auth_jira, "transition_issue",
                          [issue |-> issue_key, transition |-> transition], ok)
       IN  /\ wire' = res.calls
           /\ last' = Outcome("change_transition", h, <<transition, issue_key>>, res)
    /\ UNCHANGED <<instance, objects, threads, handles, started>>

\* Jira.add_issues_to_sprint
AddIssuesToSprint(h, sprint_id, issue_keys, ok) ==
    /\ Holds(h)
    /\ LET res == Forward(Facade(h).auth_jira, "add_issues_to_sprint",
                          <<sprint_id, issue_keys>>, ok)
       IN  /\ wire' = res.calls
           /\ last' = Outcome("add_issues_to_sprint", h, <<sprint_id, issue_keys>>, res)
    /\ UNCHANGED <<instance, objects, threads, handles, started>>

(***************************************************************************)
(* Boards and sprints.                                                     *)
(***************************************************************************)
ProductIds == {7}
BoardIds == {11, 12}
SprintStates == {"active", "closed"}

\* the answer of the backend to a listing: the resources, or an error
Listed(data) == [ok |-> TRUE, data |-> data]
ListFailed == [ok |-> FALSE, data |-> <<>>]

\* the Board resources the backend may list
Boards == {[id |-> 11, name |-> "Team board"], [id |-> 12, name |-> "Ops board"]}
BoardLists == UNION {[1..n -> Boards] : n \in 0..MaxBoards}

\* Jira.get_first_board: boards(projectKeyOrID=product_id)[0].id
get_first_board(sess, product_id, reply) ==
    LET calls == <<Call(sess, "boards", [projectKeyOrID |-> product_id], reply)>>
    IN  IF ~reply.ok THEN Sent(Raised("JIRAError"), calls)
        ELSE IF Len(reply.data) = 0 THEN Sent(Raised("IndexError"), calls)
        ELSE Sent(Returned(PyInt(reply.data[1].id)), calls)

GetFirstBoard(h, product_id, reply) ==
    /\ Holds(h)
    /\ LET res == get_first_board(Facade(h).auth_jira, product_id, reply)
       IN  /\ wire' = res.calls
           /\ last' = Outcome("get_first_board", h, <<product_id>>, res)
    /\ UNCHANGED <<instance, objects, threads, handles, started>>

\* the Sprint resources the backend may list
Sprints ==
    {[id |-> 1, name |-> "Sprint 1", state |-> "closed",
      startDate |-> "2024-01-01", endDate |-> "2024-01-14",
      originBoardId |-> 11, goal |-> "ship"],
     [id |-> 2, name |-> "Sprint 2", state |-> "active",
      startDate |-> "2024-01-15", endDate |-> "2024-01-28",
      originBoardId |-> 11, goal |-> ""],
     [id |-> 3, name |-> "Sprint 3", state |-> "active",
      startDate |-> "2024-01-15", endDate |-> "2024-02-11",
      originBoardId |-> 12, goal |-> "scale"]}
SprintLists == UNION {[1..n -> Sprints] : n \in 0..MaxSprints}

\* the dict the loop of __sprint_serializer builds from one sprint
SprintDict(s) ==
    [id |-> s.id, name |-> s.name, state |-> s.state,
     startDate |-> s.startDate, endDate |-> s.endDate]

\* the loop with its appends in the other order
sprint_serializer_reversed(data) ==
    [i \in 1..Len(data) |-> SprintDict(data[Len(data) + 1 - i])]

\* Jira.__sprint_serializer
sprint_serializer(data) == [i \in 1..Len(data) |-> SprintDict(data[i])]

\* Jira.get_sprints
get_sprints(sess, board_id, state, reply) ==
    LET calls == <<Call(sess, "sprints", [board_id |-> board_id, state |-> state], reply)>>
    IN  IF ~reply.ok THEN Sent(Raised("JIRAError"), calls)
        ELSE Sent(Returned(PyList(sprint_serializer(reply.data))), calls)

GetSprints(h, board_id, state, reply) ==
    /\ Holds(h)
    /\ LET res == get_sprints(Facade(h).auth_jira, board_id, state, reply)
       IN  /\ wire' = res.calls
           /\ last' = Outcome("get_sprints", h, <<board_id, state>>, res)
    /\ UNCHANGED <<instance, objects, threads, handles, started>>

(***************************************************************************)
(* Issue search and the normalisation of its JSON response.                *)
(***************************************************************************)
PageSize == 10

UserKeys == <<"name", "emailAddress", "avatarUrls", "displayName">>

\* the reporter object of a raw issue
User0 ==
    [name |-> PyStr("carol"), emailAddress |-> PyStr("carol@example.org"),
     avatarUrls |-> PyDict(<<"16x16", "48x48">>,
                           [k \in {"16x16", "48x48"} |-> PyStr("/avatar/" \o k)]),
     displayName |-> PyStr("Carol C")]

\* the "fields" object of a raw issue with everything in it
Fields0 ==
    [summary |-> PyStr("Crash on save"),
     reporter |-> PyDict(UserKeys, User0),
     status |-> PyDict(<<"id", "name">>, [id |-> PyStr("3"), name |-> PyStr("Open")]),
     priority |-> PyDict(<<"id", "name">>, [id |-> PyStr("2"), name |-> PyStr("High")]),
     created |-> PyStr("2024-01-02T03:04:05.000+0000")]

\* the "fields" objects the backend may answer with: Fields0, and Fields0
\* with one part missing, null or without its inner key
FieldShapes ==
    {Fields0,
     Without(Fields0, "summary"),
     Without(Fields0, "reporter"),
     [Fields0 EXCEPT !.reporter = PyNone],
     [Fields0 EXCEPT !.reporter = PyDict(<<"name", "avatarUrls", "displayName">>,
                                         Without(User0, "emailAddress"))],
     Without(Fields0, "status"),
     [Fields0 EXCEPT !.status = PyNone],
     [Fields0 EXCEPT !.status = PyDict(<<"id">>, [id |-> PyStr("3")])],
     Without(Fields0, "priority"),
     [Fields0 EXCEPT !.priority = PyNone],
     [Fields0 EXCEPT !.priority = PyDict(<<"id">>, [id |-> PyStr("2")])],
     Without(Fields0, "created"),
     [summary |-> PyStr("Typo"),
      status |-> PyDict(<<"id", "name">>, [id |-> PyStr("3"), name |-> PyStr("Open")]),
      priority |-> PyDict(<<"id", "name">>, [id |-> PyStr("2"), name |-> PyStr("High")])]}

\* the raw issues of a page: the i-th has the key PRJ-i
RawIssues(fs) == [i \in 1..Len(fs) |-> [key |-> "PRJ-" \o ToString(i), fields |-> fs[i]]]

\* the JSON object search_issues(json_result=True) returns
RawResponse(expand, start_at, fs) ==
    LET page == [startAt |-> start_at, maxResults |-> PageSize,
                 total |-> start_at + Len(fs), issues |-> RawIssues(fs)]
    IN  IF expand
        THEN [k \in DOMAIN page \cup {"expand"} |->
                 IF k = "expand" THEN "schema,names" ELSE page[k]]
        ELSE page

RawResponses ==
    {RawResponse(e, 0, fs) :
        e \in BOOLEAN, fs \in UNION {[1..n -> FieldShapes] : n \in 0..MaxIssues}}

\* Jira.__normalize_jira_user_response
normalize_jira_user_response(u) ==
    IF u.pytype # "dict" THEN Raised("TypeError")
    ELSE IF "name" \notin DOMAIN u.v \/ "emailAddress" \notin DOMAIN u.v
            \/ "avatarUrls" \notin DOMAIN u.v
    THEN Raised("KeyError")
    ELSE IF u.v["avatarUrls"].pytype # "dict" THEN Raised("TypeError")
    ELSE IF "48x48" \notin DOMAIN u.v["avatarUrls"].v \/ "displayName" \notin DOMAIN u.v
    THEN Raised("KeyError")
    ELSE Returned(PyDict(<<"username", "email", "avatar", "full_name">>,
                         [username |-> u.v["name"],
                          email |-> u.v["emailAddress"],
                          avatar |-> u.v["avatarUrls"].v["48x48"],
                          full_name |-> u.v["displayName"]]))

\* f[k].get("name", None), for k = "status" and k = "priority"
NameOf(f, k) ==
    IF k \notin DOMAIN f THEN Raised("KeyError")
    ELSE IF f[k].pytype # "dict" THEN Raised("AttributeError")
    ELSE Returned(DictGet(f[k].v, "name"))

\* one pass of the loop of __normalize_jira_issues_response
normalize_issue(i) ==
    LET f == i.fields
        rep == IF Truthy(DictGet(f, "reporter"))
               THEN normalize_jira_user_response(f["reporter"])
               ELSE Returned(PyNone)
        st == NameOf(f, "status")
        pr == NameOf(f, "priority")
    IN  IF "summary" \notin DOMAIN f THEN Raised("KeyError")
        ELSE IF rep.outcome = "raise" THEN rep
        ELSE IF st.outcome = "raise" THEN st
        ELSE IF pr.outcome = "raise" THEN pr
        ELSE Returned([key |-> i.key,
                       summary |-> f["summary"],
                       reporter |-> rep.value,
                       status |-> st.value,
                       priority |-> pr.value,
                       created |-> DictGet(f, "created")])

\* the loop of __normalize_jira_issues_response: the first issue that
\* raises ends it
RECURSIVE normalize_loop(_)
normalize_loop(issues) ==
    IF issues = <<>> THEN Returned(<<>>)
    ELSE LET first == normalize_issue(Head(issues))
         IN  IF first.outcome = "raise" THEN first
             ELSE LET rest == normalize_loop(Tail(issues))
                  IN  IF rest.outcome = "raise" THEN rest
                      ELSE Returned(<<first.value>> \o rest.value)

\* Jira.__normalize_jira_issues_response
normalize_jira_issues_response(jira_response) ==
    LET stripped == IF "expand" \in DOMAIN jira_response
                    THEN Without(jira_response, "expand") ELSE jira_response
    IN  IF "issues" \notin DOMAIN stripped THEN Raised("KeyError")
        ELSE LET res == normalize_loop(stripped["issues"])
             IN  IF res.outcome = "raise" THEN res ELSE Returned(PyList(res.value))

\* Jira.search_issues
search_issues(sess, jql, fields, start_at, reply) ==
    LET calls == <<Call(sess, "search_issues",
                        [jql |-> jql, fields |-> fields, json_result |-> TRUE,
                         startAt |-> start_at, maxResults |-> PageSize], reply)>>
    IN  IF ~reply.ok THEN Sent(Raised("JIRAError"), calls)
        ELSE Sent(normalize_jira_issues_response(reply.data), calls)

SearchIssues(h, jql, fields, start_at, reply) ==
    /\ Holds(h)
    /\ LET res == search_issues(Facade(h).auth_jira, jql, fields, start_at, reply)
       IN  /\ wire' = res.calls
           /\ last' = Outcome("search_issues", h, <<jql, fields, start_at>>, res)
    /\ UNCHANGED <<instance, objects, threads, handles, started>>

\* the steps of a construction after __new__ found or made the object
Init__(t) ==
    \/ InitSource(t)
    \/ InitRequest(t)
    \/ DefineConnectionTestA(t)
    \/ DefineConnectionTestB(t)
    \/ Connect(t)
    \/ \E ok \in BOOLEAN : Connected(t, ok)

\* the steps of create_ticket
CreateTicketSteps(t) ==
    \/ \E h \in 1..MaxConstructions, data \in Drafts : CreateTicket(t, h, data)
    \/ CreateTicketTestB(t)
    \/ CreateTicketInA(t)
    \/ CreateTicketInB(t)
    \/ CreateTicketInBSend(t)
    \/ \E reply \in CreateReplies : CreateTicketEnd(t, reply)

Next ==
    \/ \E t \in Threads, user \in Users, sel \in Selectors : New(t, user, sel)
    \/ \E t \in Threads : NewCreate(t)
    \/ \E t \in Threads : NewReturn(t)
    \/ \E t \in Threads : Init__(t)
    \/ \E t \in Threads : CreateTicketSteps(t)

Spec == Init /\ [][Next]_vars

(***************************************************************************)
(* The read operations are checked from the states a first successful      *)
(* construction leaves: one facade, its session open.                      *)
(***************************************************************************)
InitConstructed ==
    \E user \in Users, sel \in Source :
        /\ instance = 1
        /\ objects = <<[source |-> sel, request |-> user,
                        auth_jira |-> (IF sel = SourceA THEN connect_to_a(1, user, TRUE)
                                       ELSE connect_to_b(1, user, TRUE)).value]>>
        /\ threads = [t \in Threads |-> Idle]
        /\ handles = <<[source |-> sel, user |-> user, object |-> 1, session |-> 1]>>
        /\ started = 1
        /\ wire = <<>>
        /\ last = Outcome("construct", 1, <<user, sel>>, Returned(PyNone))

NextRead ==
    \/ \E c \in Comments, k \in IssueKeys, ok \in Acks :
           AddComment(1, c, k, ok)
    \/ \E tr \in Transitions, k \in IssueKeys, ok \in Acks :
           ChangeTransition(1, tr, k, ok)
    \/ \E sp \in SprintIds, ks \in {<<>>, <<"PRJ-1">>}, ok \in Acks :
           AddIssuesToSprint(1, sp, ks, ok)
    \/ \E p \in ProductIds, reply \in {Listed(l) : l \in BoardLists} \cup {ListFailed} :
           GetFirstBoard(1, p, reply)
    \/ \E b \in BoardIds, st \in SprintStates,
          reply \in {Listed(l) : l \in SprintLists} \cup {ListFailed} :
           GetSprints(1, b, st, reply)

SpecRead == InitConstructed /\ [][NextRead]_vars

NextSearch ==
    \E reply \in {Listed(r) : r \in RawResponses} \cup {ListFailed} :
        SearchIssues(1, "project = PRJ", <<"summary", "reporter", "status">>, 0, reply)

SpecSearch == InitConstructed /\ [][NextSearch]_vars

(***************************************************************************)
(* Properties of construction and of create_ticket, checked under Spec.    *)
(***************************************************************************)
Operations ==
    {"create_ticket", "add_comment", "change_transition", "add_issues_to_sprint",
     "get_first_board", "get_sprints", "search_issues"}

\* C1: facades constructed with different selectors use independent
\* sessions: the session of every facade is bound to the backend of the
\* selector and to the identity it was constructed with, two facades
\* constructed with different selectors do not share a session, and a
\* request sent through a facade goes to the backend of its own selector
\* with its own identity as context header.
C1_IndependentSessions ==
    \A h, g \in 1..Len(handles) :
        handles[h].source # handles[g].source
            => /\ Facade(h).auth_jira.id # Facade(g).auth_jira.id
               /\ Facade(h).auth_jira.server = ServerUrl(handles[h].source)
               /\ Facade(h).auth_jira.contextUser = handles[h].user
               /\ (last.op \in Operations /\ last.handle = h /\ wire # <<>>)
                     => /\ wire[1].server = ServerUrl(handles[h].source)
                        /\ wire[1].contextUser = handles[h].user

\* C2: the selector, the identity and the session of a facade are the ones
\* its construction established, in every reachable state, and
\* create_ticket through it uses the mapping of that selector (the request
\* names a reporter exactly when the selector is B).
C2_FacadeFixedAtConstruction ==
    /\ \A h \in 1..Len(handles) :
          /\ Facade(h).source = handles[h].source
          /\ Facade(h).request = handles[h].user
          /\ Facade(h).auth_jira.id = handles[h].session
    /\ (last.op = "create_ticket" /\ wire # <<>>)
          => ("reporter" \in DOMAIN wire[1].payload
                 <=> handles[last.handle].source = SourceB)

\* the draft holds every key the mapping of the selector src reads
DraftComplete(src, data) ==
    IF src = SourceA THEN {"product_id", "name"} \subseteq DOMAIN data
    ELSE /\ {"name", "as_a", "i_want", "so_that", "product", "is_high_priority"}
               \subseteq DOMAIN data
         /\ data["product"].pytype = "dict"

\* C3: when create_ticket finds selector A or B on the facade, the draft
\* holds the keys the mapping needs and the backend accepts the request,
\* create_ticket returns the key of the issue the backend created.
C3_ReturnsCreatedKey ==
    (/\ last.op = "create_ticket"
     /\ last.source \in Source
     /\ DraftComplete(last.source, last.args[1])
     /\ wire # <<>>
     /\ wire[1].reply.ok)
        => /\ last.outcome = "return"
           /\ last.value = PyStr(wire[1].reply.issue.key)

\* C4: through a facade constructed with selector A and with a draft
\* holding product_id and name, create_ticket sends one creation request
\* whose fields are exactly project.id = product_id, issuetype.id = 10001,
\* summary = name.
C4_FieldsOfA ==
    (/\ last.op = "create_ticket"
     /\ handles[last.handle].source = SourceA
     /\ {"product_id", "name"} \subseteq DOMAIN last.args[1])
        => /\ Len(wire) = 1
           /\ wire[1].method = "create_issue"
           /\ DOMAIN wire[1].payload = {"project", "issuetype", "summary"}
           /\ wire[1].payload.project = [id |-> last.args[1]["product_id"]]
           /\ wire[1].payload.issuetype = [id |-> 10001]
           /\ wire[1].payload.summary = last.args[1]["name"]

\* a draft of the shape the mapping of B is written for
ValidDraftB(data) ==
    /\ DraftComplete(SourceB, data)
    /\ \A k \in {"name", "as_a", "i_want", "so_that"} : data[k].pytype = "str"
    /\ "name" \in DOMAIN data["product"].v

\* C5: through a facade constructed with selector B and with a valid
\* draft, create_ticket sends project.id = 10407, issuetype.id = 16704,
\* summary = name, reporter = the identity the facade was constructed with,
\* customfield_23249 = as_a + " , " + i_want + ", " + so_that,
\* customfield_23250 = product.name, and priority.id = "2" exactly when
\* is_high_priority holds, "4" otherwise.
C5_FieldsOfB ==
    (/\ last.op = "create_ticket"
     /\ handles[last.handle].source = SourceB
     /\ ValidDraftB(last.args[1]))
        => /\ Len(wire) = 1
           /\ LET d == last.args[1]
                  p == wire[1].payload
              IN  /\ wire[1].method = "create_issue"
                  /\ p.project = [id |-> 10407]
                  /\ p.issuetype = [id |-> 16704]
                  /\ p.summary = d["name"]
                  /\ p.reporter = [name |-> handles[last.handle].user]
                  /\ p.customfield_23249 =
                         d["as_a"].v \o " , " \o d["i_want"].v \o ", " \o d["so_that"].v
                  /\ p.customfield_23250 = d["product"].v["name"]
                  /\ p.priority.id = IF Truthy(d["is_high_priority"]) THEN "2" ELSE "4"

\* The mappings as create_ticket applies them: a call that took the branch
\* of A (self.source at line 121) and built its arguments sent the three
\* fields of A; a call that took the branch of B (line 123) sent the fields
\* of B with the identity it read from self.request at line 160 as reporter.
CreateTicketSendsMappingOfBranch ==
    (last.op = "create_ticket" /\ wire # <<>>)
        => LET d == last.args[1]
               p == wire[1].payload
           IN  /\ Len(wire) = 1
               /\ wire[1].method = "create_issue"
               /\ last.source \in Source
               /\ last.source = SourceA
                     => /\ DOMAIN p = {"project", "issuetype", "summary"}
                        /\ p.project = [id |-> d["product_id"]]
                        /\ p.issuetype = [id |-> 10001]
                        /\ p.summary = d["name"]
               /\ last.source = SourceB
                     => /\ DOMAIN p = {"project", "issuetype", "summary", "reporter",
                                       "customfield_23249", "customfield_23250",
                                       "priority"}
                        /\ p.project = [id |-> 10407]
                        /\ p.issuetype = [id |-> 16704]
                        /\ p.summary = d["name"]
                        /\ p.reporter = [name |-> last.request]
                        /\ ValidDraftB(d)
                              => /\ p.customfield_23249 =
                                        d["as_a"].v \o " , " \o d["i_want"].v
                                            \o ", " \o d["so_that"].v
                                 /\ p.customfield_23250 = d["product"].v["name"]
                        /\ p.priority.id =
                               IF Truthy(d["is_high_priority"]) THEN "2" ELSE "4"

\* C9: a construction with a selector that is neither A nor B fails with
\* ValueError and yields no facade, and afterwards no facade has the
\* rejected selector or a selector that differs from the backend of its
\* session, the facades constructed before included.
C9_FailedConstructionLeavesNoTrace ==
    (last.op = "construct" /\ last.args[2] \notin Source)
        => /\ last.outcome = "raise"
           /\ last.exc = "ValueError"
           /\ last.handle = 0
           /\ \A h \in 1..Len(handles) :
                 /\ Facade(h).source # last.args[2]
                 /\ Facade(h).auth_jira.server = ServerUrl(Facade(h).source)

(***************************************************************************)
(* Properties of the board and sprint listings, checked under SpecRead.    *)
(***************************************************************************)
\* C8: when the backend lists no board for the project, get_first_board
\* fails with EmptyResultError, not with an index fault; when it lists at
\* least one board, get_first_board returns the id of the first.
C8_FirstBoardOrEmptyResult ==
    (last.op = "get_first_board" /\ wire[1].reply.ok)
        => IF Len(wire[1].reply.data) = 0
           THEN last.outcome = "raise" /\ last.exc = "EmptyResultError"
           ELSE last.outcome = "return" /\ last.value = PyInt(wire[1].reply.data[1].id)

\* C10: get_sprints returns as many elements as the backend listed sprints,
\* in the same order, the i-th with exactly the keys id, name, state,
\* startDate, endDate and the values of the i-th sprint.
C10_SprintsMappedInOrder ==
    (last.op = "get_sprints" /\ wire[1].reply.ok)
        => LET raw == wire[1].reply.data
               out == last.value.v
           IN  /\ last.outcome = "return"
               /\ last.value.pytype = "list"
               /\ Len(out) = Len(raw)
               /\ \A i \in 1..Len(raw) :
                     /\ DOMAIN out[i] = {"id", "name", "state", "startDate", "endDate"}
                     /\ out[i].id = raw[i].id
                     /\ out[i].name = raw[i].name
                     /\ out[i].state = raw[i].state
                     /\ out[i].startDate = raw[i].startDate
                     /\ out[i].endDate = raw[i].endDate

\* the backend listed two different sprints and get_sprints returned two
C10_Witness ==
    /\ last.op = "get_sprints"
    /\ wire[1].reply.ok
    /\ Len(wire[1].reply.data) = 2
    /\ wire[1].reply.data[1].id # wire[1].reply.data[2].id
    /\ last.outcome = "return"
    /\ Len(last.value.v) = 2

(***************************************************************************)
(* Properties of search_issues, checked under SpecSearch.                  *)
(***************************************************************************)
\* a "fields" object whose optional parts are each present, missing, or in
\* one of the shapes C6 names: the summary is there, the reporter is
\* missing, null or a complete user, the status and the priority are
\* missing or objects
OptionalPartsOnly(f) ==
    /\ "summary" \in DOMAIN f
    /\ Truthy(DictGet(f, "reporter"))
          => normalize_jira_user_response(f["reporter"]).outcome = "return"
    /\ "status" \in DOMAIN f => f["status"].pytype = "dict"
    /\ "priority" \in DOMAIN f => f["priority"].pytype = "dict"

\* the field k of f is missing, or an object without a name
Nameless(f, k) == k \notin DOMAIN f \/ "name" \notin DOMAIN f[k].v

\* C6: search_issues does not raise when an optional part of an issue is
\* missing or null: every issue of the page is normalized, a missing or
\* null reporter gives reporter None, a missing status or one without a
\* name gives status None, likewise the priority, and a missing created
\* gives created None.
C6_MissingOptionalPartsAbsent ==
    (/\ last.op = "search_issues"
     /\ wire[1].reply.ok
     /\ \A i \in 1..Len(wire[1].reply.data.issues) :
           OptionalPartsOnly(wire[1].reply.data.issues[i].fields))
        => LET raw == wire[1].reply.data.issues
               out == last.value.v
           IN  /\ last.outcome = "return"
               /\ Len(out) = Len(raw)
               /\ \A i \in 1..Len(raw) :
                     LET f == raw[i].fields
                     IN  /\ ~Truthy(DictGet(f, "reporter")) => out[i].reporter = PyNone
                         /\ Nameless(f, "status") => out[i].status = PyNone
                         /\ Nameless(f, "priority") => out[i].priority = PyNone
                         /\ "created" \notin DOMAIN f => out[i].created = PyNone

\* every issue of the page has its status and its priority as objects
StatusAndPriorityObjects(raw) ==
    \A i \in 1..Len(raw) :
        /\ "status" \in DOMAIN raw[i].fields
        /\ "priority" \in DOMAIN raw[i].fields

\* On pages whose issues all carry a status and a priority object, the
\* normalisation returns one issue per raw issue, in order, with reporter
\* None where the raw issue has no reporter or a null one.
SearchNormalizesPagesWithStatusAndPriority ==
    (/\ last.op = "search_issues"
     /\ wire[1].reply.ok
     /\ StatusAndPriorityObjects(wire[1].reply.data.issues)
     /\ \A i \in 1..Len(wire[1].reply.data.issues) :
           OptionalPartsOnly(wire[1].reply.data.issues[i].fields))
        => LET raw == wire[1].reply.data.issues
               out == last.value.v
           IN  /\ last.outcome = "return"
               /\ last.value.pytype = "list"
               /\ Len(out) = Len(raw)
               /\ \A i \in 1..Len(raw) :
                     /\ out[i].key = raw[i].key
                     /\ DOMAIN out[i] =
                            {"key", "summary", "reporter", "status", "priority", "created"}
                     /\ ~Truthy(DictGet(raw[i].fields, "reporter"))
                           => out[i].reporter = PyNone

\* C7: for a response with an "expand" key and an issue without a reporter
\* field, the result has no "expand" key, holds one normalized issue per
\* raw issue in the same order, and the issue without a reporter has the
\* key reporter with the value None.
C7_ExpandStrippedReporterNone ==
    (/\ last.op = "search_issues"
     /\ wire[1].reply.ok
     /\ "expand" \in DOMAIN wire[1].reply.data
     /\ \E i \in 1..Len(wire[1].reply.data.issues) :
           "reporter" \notin DOMAIN wire[1].reply.data.issues[i].fields
     /\ \A i \in 1..Len(wire[1].reply.data.issues) :
           OptionalPartsOnly(wire[1].reply.data.issues[i].fields))
        => LET raw == wire[1].reply.data.issues
               out == last.value.v
           IN  /\ last.outcome = "return"
               /\ last.value.pytype = "list"
               /\ Len(out) = Len(raw)
               /\ \A i \in 1..Len(raw) :
                     /\ out[i].key = raw[i].key
                     /\ "reporter" \notin DOMAIN raw[i].fields
                           => /\ "reporter" \in DOMAIN out[i]
                              /\ out[i].reporter = PyNone
====
